---------------------------- MODULE Spec2Model ----------------------------
(***************************************************************************)
(* StoryCrafter server actions (src/src/actions/index.ts).                 *)
(*                                                                         *)
(* The four tables are sets of rows.  Every server action is one TLA+      *)
(* action that runs the action from the input parse to the returned        *)
(* envelope or the thrown ActionError.  Requests are served one at a time: *)
(* `last` holds the call being answered, what it returns and the tables it *)
(* started from, until Respond hands the answer to the caller.             *)
(*                                                                         *)
(* A handler is an async function: its ownership checks are selects it     *)
(* awaits, and its one insert, update or delete is a statement it awaits   *)
(* after them.  SpecConc runs the handlers of several requests at once:    *)
(* Begin runs the input parse and the checks of a request, Commit runs its *)
(* statement on the tables as they are by then; `requests` holds the       *)
(* requests that have passed their checks.                                 *)
(*                                                                         *)
(* The datastore is the one of spec section 6: insert, filtered select,    *)
(* update-by-filter and delete-by-filter on plain tables; it does not      *)
(* reject a write because of a `references` declaration.                   *)
(***************************************************************************)
EXTENDS Integers, FiniteSets, Sequences, TLC

VARIABLES Stories, StoryActs, StoryChapters, StoryScenes, uuids, clock, last,
          requests

vars == <<Stories, StoryActs, StoryChapters, StoryScenes, uuids, clock, last,
          requests>>

----------------------------------------------------------------------------
(* Bounds of the model *)

\* how many ids crypto.randomUUID() hands out per table
MaxStories == 2
MaxActs == 2
MaxChapters == 2
MaxScenes == 2
\* the clock value after which no insert, update or delete is taken
MaxClock == 5
\* how many requests run their handlers at once, and how many statements they run
MaxRequests == 3
MaxCommits == 3

----------------------------------------------------------------------------
(* Values *)

Users == {"u1", "u2"}
\* context.locals.user is undefined
NoUser == "<anonymous>"
\* a column that holds no value
NULL == "<null>"

Id(prefix, n) == prefix \o ToString(n)
StoryIds == {Id("s", n) : n \in 1..MaxStories}
ActIds == {Id("a", n) : n \in 1..MaxActs}
ChapterIds == {Id("c", n) : n \in 1..MaxChapters}
SceneIds == {Id("n", n) : n \in 1..MaxScenes}

\* an input is a record holding exactly the keys the caller supplied
Has(input, key) == key \in DOMAIN input
\* input.key, undefined when not supplied; an undefined column value is stored as NULL
Field(input, key) == IF Has(input, key) THEN input[key] ELSE NULL

DB == [Stories |-> Stories, StoryActs |-> StoryActs,
       StoryChapters |-> StoryChapters, StoryScenes |-> StoryScenes]

----------------------------------------------------------------------------
(* Errors and results *)

Throw(code, message) == [threw |-> TRUE, code |-> code, message |-> message]
Return(value) == [threw |-> FALSE, value |-> value]
\* what a handler hands back: the rows in its envelope and the tables it leaves
Done(data, db) == [threw |-> FALSE, data |-> data, db |-> db]
\* return { success: true, data: { items, total: items.length } }
Listed(items) == [threw |-> FALSE, data |-> items, total |-> Cardinality(items)]

UNAUTHORIZED == "UNAUTHORIZED"
NOT_FOUND == "NOT_FOUND"
BAD_REQUEST == "BAD_REQUEST"
AtLeastOneField == "At least one field must be provided to update."
TooSmall == "String must contain at least 1 character(s)"
InvalidType == "Expected string, received null"

\* requireUser without its check: whatever the context holds is the user
requireUser_NoCheck(context) == Return(context.user)

requireUser(context) ==
  IF context.user = NoUser
  THEN Throw(UNAUTHORIZED, "You must be signed in to perform this action.")
  ELSE Return(context.user)

\* getOwnedStory telling a Story of somebody else from a missing one
getOwnedStory_Forbidden(storyId, userId) ==
  LET rows == {s \in Stories : s.id = storyId}
  IN IF rows = {} THEN Throw(NOT_FOUND, "Story not found.")
     ELSE IF \A s \in rows : s.userId # userId
     THEN Throw("FORBIDDEN", "You do not own this story.")
     ELSE Return(CHOOSE s \in rows : s.userId = userId)

getOwnedStory(storyId, userId) ==
  LET rows == {s \in Stories : s.id = storyId /\ s.userId = userId}
  IN IF rows = {} THEN Throw(NOT_FOUND, "Story not found.")
     ELSE Return(CHOOSE s \in rows : TRUE)

\* getOwnedAct selecting the Act by id alone
getOwnedAct_AnyStory(actId, storyId, userId) ==
  LET story == getOwnedStory(storyId, userId)
      rows == {a \in StoryActs : a.id = actId}
  IN IF story.threw THEN story
     ELSE IF rows = {} THEN Throw(NOT_FOUND, "Act not found.")
     ELSE Return(CHOOSE a \in rows : TRUE)

getOwnedAct(actId, storyId, userId) ==
  LET story == getOwnedStory(storyId, userId)
      rows == {a \in StoryActs : a.id = actId /\ a.storyId = storyId}
  IN IF story.threw THEN story
     ELSE IF rows = {} THEN Throw(NOT_FOUND, "Act not found.")
     ELSE Return(CHOOSE a \in rows : TRUE)

\* getOwnedChapter without the call of getOwnedStory
getOwnedChapter_NoStory(chapterId, storyId, userId) ==
  LET rows == {c \in StoryChapters : c.id = chapterId /\ c.storyId = storyId}
  IN IF rows = {} THEN Throw(NOT_FOUND, "Chapter not found.")
     ELSE Return(CHOOSE c \in rows : TRUE)

getOwnedChapter(chapterId, storyId, userId) ==
  LET story == getOwnedStory(storyId, userId)
      rows == {c \in StoryChapters : c.id = chapterId /\ c.storyId = storyId}
  IN IF story.threw THEN story
     ELSE IF rows = {} THEN Throw(NOT_FOUND, "Chapter not found.")
     ELSE Return(CHOOSE c \in rows : TRUE)

getOwnedScene(sceneId, storyId, userId) ==
  LET story == getOwnedStory(storyId, userId)
      rows == {n \in StoryScenes : n.id = sceneId /\ n.storyId = storyId}
  IN IF story.threw THEN story
     ELSE IF rows = {} THEN Throw(NOT_FOUND, "Scene not found.")
     ELSE Return(CHOOSE n \in rows : TRUE)

----------------------------------------------------------------------------
(* Datastore statements *)

\* crypto.randomUUID(): an id no earlier call returned
randomUUID(prefix, table) == Id(prefix, uuids[table] + 1)

\* an update that replaces the row: a key that is not supplied goes back to its default
Patch_Replace(row, input, keys) ==
  [col \in DOMAIN row |->
     IF col \notin keys THEN row[col]
     ELSE IF Has(input, col) THEN input[col]
     ELSE IF col = "orderIndex" THEN 1 ELSE NULL]

\* .set({...(input.k !== undefined ? {k: input.k} : {}), ...}) for the keys given
Patch(row, input, keys) ==
  [col \in DOMAIN row |->
     IF col \in keys /\ Has(input, col) THEN input[col] ELSE row[col]]

\* db.delete(table).where(eq(table.id, id))
DeleteWhereId(table, id) == {row \in table : row.id # id}


----------------------------------------------------------------------------
(* defineAction: the input is parsed with the action's schema, and the       *)
(* handler runs only on an input the schema accepts                          *)

defineAction(issues, result) ==
  IF issues # {}
  THEN [threw |-> TRUE, code |-> BAD_REQUEST, message |-> "Failed to validate",
        issues |-> issues]
  ELSE result

\* z.string().min(1) on a key
Min1(input, key) == IF Has(input, key) /\ input[key] = "" THEN {TooSmall} ELSE {}
\* z.string().nullable() on a key
ZString_Nullable(input, key) == {}

\* z.string() on a key: null is not a string
ZString(input, key) ==
  IF Has(input, key) /\ input[key] = NULL THEN {InvalidType} ELSE {}

\* a refinement that accepts every input
Refine_Never(input, keys) == {}

\* .refine(input => some key of keys is not undefined)
Refine(input, keys) ==
  IF \E key \in keys : Has(input, key) THEN {} ELSE {AtLeastOneField}

----------------------------------------------------------------------------
(* Stories *)

StoryFields == {"title", "logline", "genre", "targetAudience", "status", "notes"}

createStory_input(input) == Min1(input, "title")

\* db.insert(Stories).values({...}).returning()
createStory_statement(input, userId) ==
  LET now == clock
      story == [id |-> randomUUID("s", "Stories"),
                userId |-> userId,
                title |-> input.title,
                logline |-> Field(input, "logline"),
                genre |-> Field(input, "genre"),
                targetAudience |-> Field(input, "targetAudience"),
                status |-> Field(input, "status"),
                notes |-> Field(input, "notes"),
                createdAt |-> now,
                updatedAt |-> now]
  IN Done({story}, [DB EXCEPT !.Stories = Stories \cup {story}])

createStory(input, context) ==
  LET user == requireUser(context)
  IN IF user.threw THEN user
     ELSE createStory_statement(input, user.value)

updateStory_input(input) ==
  Min1(input, "id") \cup Min1(input, "title") \cup Refine(input, StoryFields)

\* db.update(Stories).set({...}).where(eq(Stories.id, input.id)).returning()
updateStory_statement(input) ==
  LET set(row) == [Patch(row, input, StoryFields) EXCEPT !.updatedAt = clock]
      hit == {row \in Stories : row.id = input.id}
  IN Done({set(row) : row \in hit},
          [DB EXCEPT !.Stories = (Stories \ hit) \cup {set(row) : row \in hit}])

\* updateStory without updatedAt: new Date() in its set
updateStory_NoTouch(input, context) ==
  LET user == requireUser(context)
      owned == getOwnedStory(input.id, user.value)
      set(row) == Patch(row, input, StoryFields)
      hit == {row \in Stories : row.id = input.id}
  IN IF user.threw THEN user
     ELSE IF owned.threw THEN owned
     ELSE Done({set(row) : row \in hit},
               [DB EXCEPT !.Stories = (Stories \ hit) \cup {set(row) : row \in hit}])

updateStory(input, context) ==
  LET user == requireUser(context)
      owned == getOwnedStory(input.id, user.value)
  IN IF user.threw THEN user
     ELSE IF owned.threw THEN owned
     ELSE updateStory_statement(input)

listStories(input, context) ==
  LET user == requireUser(context)
      stories == {s \in Stories : s.userId = user.value}
  IN IF user.threw THEN user ELSE Listed(stories)

----------------------------------------------------------------------------
(* Acts *)

ActFields == {"orderIndex", "title", "summary"}

createStoryAct_input(input) == Min1(input, "storyId")

\* db.insert(StoryActs).values({...}).returning()
createStoryAct_statement(input) ==
  LET act == [id |-> randomUUID("a", "StoryActs"),
              storyId |-> input.storyId,
              orderIndex |-> IF Has(input, "orderIndex") THEN input.orderIndex ELSE 1,
              title |-> Field(input, "title"),
              summary |-> Field(input, "summary"),
              createdAt |-> clock]
  IN Done({act}, [DB EXCEPT !.StoryActs = StoryActs \cup {act}])

\* createStoryAct with input.orderIndex ?? 0
createStoryAct_ZeroDefault(input, context) ==
  LET user == requireUser(context)
      owned == getOwnedStory(input.storyId, user.value)
      act == [id |-> randomUUID("a", "StoryActs"),
              storyId |-> input.storyId,
              orderIndex |-> IF Has(input, "orderIndex") THEN input.orderIndex ELSE 0,
              title |-> Field(input, "title"),
              summary |-> Field(input, "summary"),
              createdAt |-> clock]
  IN IF user.threw THEN user
     ELSE IF owned.threw THEN owned
     ELSE Done({act}, [DB EXCEPT !.StoryActs = StoryActs \cup {act}])

\* createStoryAct without the call of getOwnedStory
createStoryAct_NoGate(input, context) ==
  LET user == requireUser(context)
      act == [id |-> randomUUID("a", "StoryActs"),
              storyId |-> input.storyId,
              orderIndex |-> IF Has(input, "orderIndex") THEN input.orderIndex ELSE 1,
              title |-> Field(input, "title"),
              summary |-> Field(input, "summary"),
              createdAt |-> clock]
  IN IF user.threw THEN user
     ELSE Done({act}, [DB EXCEPT !.StoryActs = StoryActs \cup {act}])

createStoryAct(input, context) ==
  LET user == requireUser(context)
      owned == getOwnedStory(input.storyId, user.value)
  IN IF user.threw THEN user
     ELSE IF owned.threw THEN owned
     ELSE createStoryAct_statement(input)

updateStoryAct_input(input) ==
  Min1(input, "id") \cup Min1(input, "storyId") \cup Refine(input, ActFields)

\* db.update(StoryActs).set({...}).where(eq(StoryActs.id, input.id)).returning()
updateStoryAct_statement(input) ==
  LET set(row) == Patch(row, input, ActFields)
      hit == {row \in StoryActs : row.id = input.id}
  IN Done({set(row) : row \in hit},
          [DB EXCEPT !.StoryActs = (StoryActs \ hit) \cup {set(row) : row \in hit}])

\* updateStoryAct finding the Act by id alone and writing storyId with the other keys
updateStoryAct_Moves(input, context) ==
  LET user == requireUser(context)
      owned == getOwnedAct_AnyStory(input.id, input.storyId, user.value)
      set(row) == Patch(row, input, ActFields \cup {"storyId"})
      hit == {row \in StoryActs : row.id = input.id}
  IN IF user.threw THEN user
     ELSE IF owned.threw THEN owned
     ELSE Done({set(row) : row \in hit},
               [DB EXCEPT !.StoryActs = (StoryActs \ hit) \cup {set(row) : row \in hit}])

updateStoryAct(input, context) ==
  LET user == requireUser(context)
      owned == getOwnedAct(input.id, input.storyId, user.value)
  IN IF user.threw THEN user
     ELSE IF owned.threw THEN owned
     ELSE updateStoryAct_statement(input)

deleteStoryAct_input(input) == Min1(input, "id") \cup Min1(input, "storyId")

\* db.delete(StoryActs).where(eq(StoryActs.id, input.id))
deleteStoryAct_statement(input) ==
  Done({}, [DB EXCEPT !.StoryActs = DeleteWhereId(StoryActs, input.id)])

\* deleteStoryAct deleting the chapters of the Act with it
deleteStoryAct_Cascade(input, context) ==
  LET user == requireUser(context)
      owned == getOwnedAct(input.id, input.storyId, user.value)
  IN IF user.threw THEN user
     ELSE IF owned.threw THEN owned
     ELSE Done({}, [DB EXCEPT !.StoryActs = DeleteWhereId(StoryActs, input.id),
                              !.StoryChapters =
                                 {c \in StoryChapters : c.actId # input.id}])

deleteStoryAct(input, context) ==
  LET user == requireUser(context)
      owned == getOwnedAct(input.id, input.storyId, user.value)
  IN IF user.threw THEN user
     ELSE IF owned.threw THEN owned
     ELSE deleteStoryAct_statement(input)

listStoryActs_input(input) == Min1(input, "storyId")

listStoryActs(input, context) ==
  LET user == requireUser(context)
      owned == getOwnedStory(input.storyId, user.value)
      acts == {a \in StoryActs : a.storyId = input.storyId}
  IN IF user.threw THEN user
     ELSE IF owned.threw THEN owned
     ELSE Listed(acts)

----------------------------------------------------------------------------
(* Chapters *)

ChapterFields == {"actId", "orderIndex", "title", "povCharacter", "summary"}

\* if (input.key): the key is supplied and is not the empty string
Truthy(input, key) == Has(input, key) /\ input[key] # ""

createStoryChapter_input(input) == Min1(input, "storyId")

\* db.insert(StoryChapters).values({...}).returning()
createStoryChapter_statement(input) ==
  LET now == clock
      chapter == [id |-> randomUUID("c", "StoryChapters"),
                  storyId |-> input.storyId,
                  actId |-> Field(input, "actId"),
                  orderIndex |-> IF Has(input, "orderIndex") THEN input.orderIndex ELSE 1,
                  title |-> Field(input, "title"),
                  povCharacter |-> Field(input, "povCharacter"),
                  summary |-> Field(input, "summary"),
                  createdAt |-> now,
                  updatedAt |-> now]
  IN Done({chapter}, [DB EXCEPT !.StoryChapters = StoryChapters \cup {chapter}])

createStoryChapter(input, context) ==
  LET user == requireUser(context)
      owned == getOwnedStory(input.storyId, user.value)
      act == IF Truthy(input, "actId")
             THEN getOwnedAct(input.actId, input.storyId, user.value)
             ELSE Return(NULL)
  IN IF user.threw THEN user
     ELSE IF owned.threw THEN owned
     ELSE IF act.threw THEN act
     ELSE createStoryChapter_statement(input)

updateStoryChapter_input(input) ==
  Min1(input, "id") \cup Min1(input, "storyId") \cup ZString(input, "actId")
  \cup Refine(input, ChapterFields)

\* db.update(StoryChapters).set({...}).where(eq(StoryChapters.id, input.id)).returning()
updateStoryChapter_statement(input) ==
  LET set(row) == [Patch(row, input, ChapterFields) EXCEPT !.updatedAt = clock]
      hit == {row \in StoryChapters : row.id = input.id}
  IN Done({set(row) : row \in hit},
          [DB EXCEPT !.StoryChapters =
             (StoryChapters \ hit) \cup {set(row) : row \in hit}])

\* updateStoryChapter running its update statement before the check of actId
updateStoryChapter_WriteFirst(input, context) ==
  LET user == requireUser(context)
      owned == getOwnedChapter(input.id, input.storyId, user.value)
      act == IF Has(input, "actId")
             THEN getOwnedAct(input.actId, input.storyId, user.value)
             ELSE Return(NULL)
      set(row) == [Patch(row, input, ChapterFields) EXCEPT !.updatedAt = clock]
      hit == {row \in StoryChapters : row.id = input.id}
      written == [DB EXCEPT !.StoryChapters =
                    (StoryChapters \ hit) \cup {set(row) : row \in hit}]
  IN IF user.threw THEN user
     ELSE IF owned.threw THEN owned
     ELSE IF act.threw
     THEN [threw |-> TRUE, code |-> act.code, message |-> act.message, db |-> written]
     ELSE Done({set(row) : row \in hit}, written)

\* updateStoryChapter checking actId the way createStoryChapter does: if (input.actId)
updateStoryChapter_Truthy(input, context) ==
  LET user == requireUser(context)
      owned == getOwnedChapter(input.id, input.storyId, user.value)
      act == IF Truthy(input, "actId")
             THEN getOwnedAct(input.actId, input.storyId, user.value)
             ELSE Return(NULL)
      set(row) == [Patch(row, input, ChapterFields) EXCEPT !.updatedAt = clock]
      hit == {row \in StoryChapters : row.id = input.id}
  IN IF user.threw THEN user
     ELSE IF owned.threw THEN owned
     ELSE IF act.threw THEN act
     ELSE Done({set(row) : row \in hit},
               [DB EXCEPT !.StoryChapters =
                  (StoryChapters \ hit) \cup {set(row) : row \in hit}])

updateStoryChapter(input, context) ==
  LET user == requireUser(context)
      owned == getOwnedChapter(input.id, input.storyId, user.value)
      act == IF Has(input, "actId") /\ input.actId # NULL
             THEN getOwnedAct(input.actId, input.storyId, user.value)
             ELSE Return(NULL)
  IN IF user.threw THEN user
     ELSE IF owned.threw THEN owned
     ELSE IF act.threw THEN act
     ELSE updateStoryChapter_statement(input)

deleteStoryChapter_input(input) == Min1(input, "id") \cup Min1(input, "storyId")

\* db.delete(StoryChapters).where(eq(StoryChapters.id, input.id))
deleteStoryChapter_statement(input) ==
  Done({}, [DB EXCEPT !.StoryChapters = DeleteWhereId(StoryChapters, input.id)])

deleteStoryChapter(input, context) ==
  LET user == requireUser(context)
      owned == getOwnedChapter(input.id, input.storyId, user.value)
  IN IF user.threw THEN user
     ELSE IF owned.threw THEN owned
     ELSE deleteStoryChapter_statement(input)

listStoryChapters_input(input) == Min1(input, "storyId")

listStoryChapters(input, context) ==
  LET user == requireUser(context)
      owned == getOwnedStory(input.storyId, user.value)
      act == IF Truthy(input, "actId")
             THEN getOwnedAct(input.actId, input.storyId, user.value)
             ELSE Return(NULL)
      chapters == IF Truthy(input, "actId")
                  THEN {c \in StoryChapters :
                          c.storyId = input.storyId /\ c.actId = input.actId}
                  ELSE {c \in StoryChapters : c.storyId = input.storyId}
  IN IF user.threw THEN user
     ELSE IF owned.threw THEN owned
     ELSE IF act.threw THEN act
     ELSE Listed(chapters)

----------------------------------------------------------------------------
(* Scenes *)

SceneFields ==
  {"chapterId", "orderIndex", "setting", "goal", "conflict", "outcome", "content"}

createStoryScene_input(input) == Min1(input, "storyId")

\* db.insert(StoryScenes).values({...}).returning()
createStoryScene_statement(input) ==
  LET now == clock
      scene == [id |-> randomUUID("n", "StoryScenes"),
                storyId |-> input.storyId,
                chapterId |-> Field(input, "chapterId"),
                orderIndex |-> IF Has(input, "orderIndex") THEN input.orderIndex ELSE 1,
                setting |-> Field(input, "setting"),
                goal |-> Field(input, "goal"),
                conflict |-> Field(input, "conflict"),
                outcome |-> Field(input, "outcome"),
                content |-> Field(input, "content"),
                createdAt |-> now,
                updatedAt |-> now]
  IN Done({scene}, [DB EXCEPT !.StoryScenes = StoryScenes \cup {scene}])

createStoryScene(input, context) ==
  LET user == requireUser(context)
      owned == getOwnedStory(input.storyId, user.value)
      chapter == IF Truthy(input, "chapterId")
                 THEN getOwnedChapter(input.chapterId, input.storyId, user.value)
                 ELSE Return(NULL)
  IN IF user.threw THEN user
     ELSE IF owned.threw THEN owned
     ELSE IF chapter.threw THEN chapter
     ELSE createStoryScene_statement(input)

updateStoryScene_input(input) ==
  Min1(input, "id") \cup Min1(input, "storyId") \cup ZString(input, "chapterId")
  \cup Refine(input, SceneFields)

\* db.update(StoryScenes).set({...}).where(eq(StoryScenes.id, input.id)).returning()
updateStoryScene_statement(input) ==
  LET set(row) == [Patch(row, input, SceneFields) EXCEPT !.updatedAt = clock]
      hit == {row \in StoryScenes : row.id = input.id}
  IN Done({set(row) : row \in hit},
          [DB EXCEPT !.StoryScenes =
             (StoryScenes \ hit) \cup {set(row) : row \in hit}])

updateStoryScene(input, context) ==
  LET user == requireUser(context)
      owned == getOwnedScene(input.id, input.storyId, user.value)
      chapter == IF Has(input, "chapterId") /\ input.chapterId # NULL
                 THEN getOwnedChapter(input.chapterId, input.storyId, user.value)
                 ELSE Return(NULL)
  IN IF user.threw THEN user
     ELSE IF owned.threw THEN owned
     ELSE IF chapter.threw THEN chapter
     ELSE updateStoryScene_statement(input)

deleteStoryScene_input(input) == Min1(input, "id") \cup Min1(input, "storyId")

\* db.delete(StoryScenes).where(eq(StoryScenes.id, input.id))
deleteStoryScene_statement(input) ==
  Done({}, [DB EXCEPT !.StoryScenes = DeleteWhereId(StoryScenes, input.id)])

deleteStoryScene(input, context) ==
  LET user == requireUser(context)
      owned == getOwnedScene(input.id, input.storyId, user.value)
  IN IF user.threw THEN user
     ELSE IF owned.threw THEN owned
     ELSE deleteStoryScene_statement(input)

listStoryScenes_input(input) == Min1(input, "storyId")

listStoryScenes(input, context) ==
  LET user == requireUser(context)
      owned == getOwnedStory(input.storyId, user.value)
      chapter == IF Truthy(input, "chapterId")
                 THEN getOwnedChapter(input.chapterId, input.storyId, user.value)
                 ELSE Return(NULL)
      scenes == IF Truthy(input, "chapterId")
                THEN {n \in StoryScenes :
                        n.storyId = input.storyId /\ n.chapterId = input.chapterId}
                ELSE {n \in StoryScenes : n.storyId = input.storyId}
  IN IF user.threw THEN user
     ELSE IF owned.threw THEN owned
     ELSE IF chapter.threw THEN chapter
     ELSE Listed(scenes)

----------------------------------------------------------------------------
(* Callers and the inputs they send *)

Contexts == {[user |-> u] : u \in Users \cup {NoUser}}

\* the text a caller puts in an optional column
Text == "x"

CreateStoryInputs == {[title |-> "T"], [title |-> ""]}

UpdateStoryInputs ==
  UNION {{[id |-> id], [id |-> id, title |-> Text], [id |-> id, notes |-> Text]} :
           id \in StoryIds}
  \cup {[id |-> "", title |-> Text], [id |-> "s1", title |-> ""]}

ListStoriesInputs == {<<>>}

CreateStoryActInputs ==
  UNION {{[storyId |-> s], [storyId |-> s, orderIndex |-> 2]} : s \in StoryIds}
  \cup {[storyId |-> ""]}

UpdateStoryActInputs ==
  UNION {{[id |-> id, storyId |-> s], [id |-> id, storyId |-> s, title |-> Text]} :
           id \in ActIds, s \in StoryIds}
  \cup {[id |-> "", storyId |-> "s1", title |-> Text]}

DeleteInputs(ids) ==
  {[id |-> id, storyId |-> s] : id \in ids, s \in StoryIds}
  \cup {[id |-> "", storyId |-> "s1"]}

ListStoryActsInputs == {[storyId |-> s] : s \in StoryIds \cup {""}}

CreateStoryChapterInputs ==
  {[storyId |-> s] : s \in StoryIds \cup {""}}
  \cup {[storyId |-> s, orderIndex |-> 2] : s \in StoryIds}
  \cup {[storyId |-> s, actId |-> a] : s \in StoryIds, a \in ActIds \cup {""}}

UpdateStoryChapterInputs ==
  UNION {{[id |-> id, storyId |-> s], [id |-> id, storyId |-> s, title |-> Text]} :
           id \in ChapterIds, s \in StoryIds}
  \cup {[id |-> id, storyId |-> s, actId |-> a] :
          id \in ChapterIds, s \in StoryIds, a \in ActIds \cup {""}}
  \cup {[id |-> id, storyId |-> "s1", actId |-> NULL] : id \in ChapterIds}
  \cup {[id |-> "", storyId |-> "s1", title |-> Text]}

ListStoryChaptersInputs ==
  {[storyId |-> s] : s \in StoryIds \cup {""}}
  \cup {[storyId |-> s, actId |-> a] : s \in StoryIds, a \in ActIds \cup {""}}

CreateStorySceneInputs ==
  {[storyId |-> s] : s \in StoryIds \cup {""}}
  \cup {[storyId |-> s, orderIndex |-> 2] : s \in StoryIds}
  \cup {[storyId |-> s, chapterId |-> c] : s \in StoryIds, c \in ChapterIds \cup {""}}

UpdateStorySceneInputs ==
  UNION {{[id |-> id, storyId |-> s], [id |-> id, storyId |-> s, content |-> Text],
          [id |-> id, storyId |-> s, goal |-> Text, orderIndex |-> 3]} :
           id \in SceneIds, s \in StoryIds}
  \cup {[id |-> id, storyId |-> s, chapterId |-> c] :
          id \in SceneIds, s \in StoryIds, c \in ChapterIds \cup {""}}
  \cup {[id |-> id, storyId |-> "s1", chapterId |-> NULL] : id \in SceneIds}
  \cup {[id |-> "", storyId |-> "s1", content |-> Text]}

ListStoryScenesInputs ==
  {[storyId |-> s] : s \in StoryIds \cup {""}}
  \cup {[storyId |-> s, chapterId |-> c] : s \in StoryIds, c \in ChapterIds \cup {""}}

----------------------------------------------------------------------------
(* The state machine *)

Creates == [createStory |-> "Stories", createStoryAct |-> "StoryActs",
            createStoryChapter |-> "StoryChapters", createStoryScene |-> "StoryScenes"]
Updates == {"updateStory", "updateStoryAct", "updateStoryChapter", "updateStoryScene"}
Deletes == {"deleteStoryAct", "deleteStoryChapter", "deleteStoryScene"}
Lists == {"listStories", "listStoryActs", "listStoryChapters", "listStoryScenes"}
Mutating == DOMAIN Creates \cup Updates \cup Deletes

EmptyDB == [Stories |-> {}, StoryActs |-> {}, StoryChapters |-> {}, StoryScenes |-> {}]

\* no call is being answered
Idle == [op |-> "none", user |-> NoUser, input |-> <<>>, threw |-> FALSE,
         code |-> "", message |-> "", issues |-> {}, data |-> {}, total |-> 0,
         at |-> 0, pre |-> EmptyDB]

Init ==
  /\ Stories = {}
  /\ StoryActs = {}
  /\ StoryChapters = {}
  /\ StoryScenes = {}
  /\ uuids = [Stories |-> 0, StoryActs |-> 0, StoryChapters |-> 0, StoryScenes |-> 0]
  /\ clock = 1
  /\ last = Idle
  /\ requests = {}

\* the caller gets response; the tables are what the statements that ran left
\* (a response that carries no db ran none)
Answer(op, context, input, response) ==
  LET ok == ~response.threw
      db == IF "db" \in DOMAIN response THEN response.db ELSE DB
  IN /\ Stories' = db.Stories
     /\ StoryActs' = db.StoryActs
     /\ StoryChapters' = db.StoryChapters
     /\ StoryScenes' = db.StoryScenes
     /\ uuids' = IF ok /\ op \in DOMAIN Creates
                 THEN [uuids EXCEPT ![Creates[op]] = @ + 1] ELSE uuids
     /\ clock' = IF ok /\ op \in Mutating THEN clock + 1 ELSE clock
     /\ last' = [op |-> op, user |-> context.user, input |-> input,
                 threw |-> response.threw,
                 code |-> IF ok THEN "OK" ELSE response.code,
                 message |-> IF ok THEN "" ELSE response.message,
                 issues |-> IF ~ok /\ response.code = BAD_REQUEST
                            THEN response.issues ELSE {},
                 data |-> IF ok THEN response.data ELSE {},
                 total |-> IF "total" \in DOMAIN response THEN response.total ELSE 0,
                 at |-> clock,
                 pre |-> DB]

\* one call of a server action, run from the input parse to the answer
Call(op, context, input, response) ==
  /\ (~response.threw /\ op \in Mutating) => clock < MaxClock
  /\ Answer(op, context, input, response)
  /\ requests' = requests

CreateStory ==
  /\ last = Idle
  /\ uuids.Stories < MaxStories
  /\ \E context \in Contexts, input \in CreateStoryInputs :
       Call("createStory", context, input,
            defineAction(createStory_input(input), createStory(input, context)))

UpdateStory ==
  /\ last = Idle
  /\ \E context \in Contexts, input \in UpdateStoryInputs :
       Call("updateStory", context, input,
            defineAction(updateStory_input(input), updateStory(input, context)))

ListStories ==
  /\ last = Idle
  /\ \E context \in Contexts, input \in ListStoriesInputs :
       Call("listStories", context, input, defineAction({}, listStories(input, context)))

CreateStoryAct ==
  /\ last = Idle
  /\ uuids.StoryActs < MaxActs
  /\ \E context \in Contexts, input \in CreateStoryActInputs :
       Call("createStoryAct", context, input,
            defineAction(createStoryAct_input(input), createStoryAct(input, context)))

UpdateStoryAct ==
  /\ last = Idle
  /\ \E context \in Contexts, input \in UpdateStoryActInputs :
       Call("updateStoryAct", context, input,
            defineAction(updateStoryAct_input(input), updateStoryAct(input, context)))

DeleteStoryAct ==
  /\ last = Idle
  /\ \E context \in Contexts, input \in DeleteInputs(ActIds) :
       Call("deleteStoryAct", context, input,
            defineAction(deleteStoryAct_input(input), deleteStoryAct(input, context)))

ListStoryActs ==
  /\ last = Idle
  /\ \E context \in Contexts, input \in ListStoryActsInputs :
       Call("listStoryActs", context, input,
            defineAction(listStoryActs_input(input), listStoryActs(input, context)))

CreateStoryChapter ==
  /\ last = Idle
  /\ uuids.StoryChapters < MaxChapters
  /\ \E context \in Contexts, input \in CreateStoryChapterInputs :
       Call("createStoryChapter", context, input,
            defineAction(createStoryChapter_input(input),
                         createStoryChapter(input, context)))

UpdateStoryChapter ==
  /\ last = Idle
  /\ \E context \in Contexts, input \in UpdateStoryChapterInputs :
       Call("updateStoryChapter", context, input,
            defineAction(updateStoryChapter_input(input),
                         updateStoryChapter(input, context)))

DeleteStoryChapter ==
  /\ last = Idle
  /\ \E context \in Contexts, input \in DeleteInputs(ChapterIds) :
       Call("deleteStoryChapter", context, input,
            defineAction(deleteStoryChapter_input(input),
                         deleteStoryChapter(input, context)))

ListStoryChapters ==
  /\ last = Idle
  /\ \E context \in Contexts, input \in ListStoryChaptersInputs :
       Call("listStoryChapters", context, input,
            defineAction(listStoryChapters_input(input),
                         listStoryChapters(input, context)))

CreateStoryScene ==
  /\ last = Idle
  /\ uuids.StoryScenes < MaxScenes
  /\ \E context \in Contexts, input \in CreateStorySceneInputs :
       Call("createStoryScene", context, input,
            defineAction(createStoryScene_input(input),
                         createStoryScene(input, context)))

UpdateStoryScene ==
  /\ last = Idle
  /\ \E context \in Contexts, input \in UpdateStorySceneInputs :
       Call("updateStoryScene", context, input,
            defineAction(updateStoryScene_input(input),
                         updateStoryScene(input, context)))

DeleteStoryScene ==
  /\ last = Idle
  /\ \E context \in Contexts, input \in DeleteInputs(SceneIds) :
       Call("deleteStoryScene", context, input,
            defineAction(deleteStoryScene_input(input),
                         deleteStoryScene(input, context)))

ListStoryScenes ==
  /\ last = Idle
  /\ \E context \in Contexts, input \in ListStoryScenesInputs :
       Call("listStoryScenes", context, input,
            defineAction(listStoryScenes_input(input),
                         listStoryScenes(input, context)))

\* the envelope or the error reaches the caller; the next request can be served
Respond ==
  /\ last # Idle
  /\ last' = Idle
  /\ UNCHANGED <<Stories, StoryActs, StoryChapters, StoryScenes, uuids, clock,
                 requests>>

Next ==
  \/ Respond
  \/ CreateStory \/ UpdateStory \/ ListStories
  \/ CreateStoryAct \/ UpdateStoryAct \/ DeleteStoryAct \/ ListStoryActs
  \/ CreateStoryChapter \/ UpdateStoryChapter \/ DeleteStoryChapter
  \/ ListStoryChapters
  \/ CreateStoryScene \/ UpdateStoryScene \/ DeleteStoryScene \/ ListStoryScenes

Spec == Init /\ [][Next]_vars

----------------------------------------------------------------------------
(* Requests served at once.  The handler of a request awaits its checks    *)
(* and then its statement, and the handlers of other requests run in       *)
(* between.  The checks of one request only read and are taken as one      *)
(* step; the statement is the datastore's one atomic step.                 *)

Handler(op, input, context) ==
  CASE op = "createStory" ->
         defineAction(createStory_input(input), createStory(input, context))
    [] op = "updateStory" ->
         defineAction(updateStory_input(input), updateStory(input, context))
    [] op = "createStoryAct" ->
         defineAction(createStoryAct_input(input), createStoryAct(input, context))
    [] op = "updateStoryAct" ->
         defineAction(updateStoryAct_input(input), updateStoryAct(input, context))
    [] op = "deleteStoryAct" ->
         defineAction(deleteStoryAct_input(input), deleteStoryAct(input, context))
    [] op = "createStoryChapter" ->
         defineAction(createStoryChapter_input(input),
                      createStoryChapter(input, context))
    [] op = "updateStoryChapter" ->
         defineAction(updateStoryChapter_input(input),
                      updateStoryChapter(input, context))
    [] op = "deleteStoryChapter" ->
         defineAction(deleteStoryChapter_input(input),
                      deleteStoryChapter(input, context))
    [] op = "createStoryScene" ->
         defineAction(createStoryScene_input(input), createStoryScene(input, context))
    [] op = "updateStoryScene" ->
         defineAction(updateStoryScene_input(input), updateStoryScene(input, context))
    [] op = "deleteStoryScene" ->
         defineAction(deleteStoryScene_input(input), deleteStoryScene(input, context))

Statement(op, input, userId) ==
  CASE op = "createStory" -> createStory_statement(input, userId)
    [] op = "updateStory" -> updateStory_statement(input)
    [] op = "createStoryAct" -> createStoryAct_statement(input)
    [] op = "updateStoryAct" -> updateStoryAct_statement(input)
    [] op = "deleteStoryAct" -> deleteStoryAct_statement(input)
    [] op = "createStoryChapter" -> createStoryChapter_statement(input)
    [] op = "updateStoryChapter" -> updateStoryChapter_statement(input)
    [] op = "deleteStoryChapter" -> deleteStoryChapter_statement(input)
    [] op = "createStoryScene" -> createStoryScene_statement(input)
    [] op = "updateStoryScene" -> updateStoryScene_statement(input)
    [] op = "deleteStoryScene" -> deleteStoryScene_statement(input)

\* the ids crypto.randomUUID() has left per table
Pool == [Stories |-> MaxStories, StoryActs |-> MaxActs,
         StoryChapters |-> MaxChapters, StoryScenes |-> MaxScenes]

\* a second text, for two callers who write different values
Text2 == "y"

\* what the callers send while u1's story s1 holds act a1, chapter c1 and scene n1
ConcInputs(op) ==
  CASE op = "createStory" -> {[title |-> "T"]}
    [] op = "updateStory" -> {[id |-> "s1", title |-> Text]}
    [] op = "createStoryAct" -> {[storyId |-> "s1"]}
    [] op = "updateStoryAct" -> {[id |-> "a1", storyId |-> "s1", title |-> Text]}
    [] op = "deleteStoryAct" -> {[id |-> "a1", storyId |-> "s1"]}
    [] op = "createStoryChapter" -> {[storyId |-> "s1", actId |-> "a1"]}
    [] op = "updateStoryChapter" ->
         {[id |-> "c1", storyId |-> "s1", actId |-> "a1"],
          [id |-> "c1", storyId |-> "s1", actId |-> "a2"],
          [id |-> "c1", storyId |-> "s1", actId |-> NULL],
          [id |-> "c1", storyId |-> "s1", title |-> Text]}
    [] op = "deleteStoryChapter" -> {[id |-> "c1", storyId |-> "s1"]}
    [] op = "createStoryScene" -> {[storyId |-> "s1", chapterId |-> "c1"]}
    [] op = "updateStoryScene" ->
         {[id |-> "n1", storyId |-> "s1", goal |-> Text, content |-> Text],
          [id |-> "n1", storyId |-> "s1", goal |-> Text2, outcome |-> Text2],
          [id |-> "n1", storyId |-> "s1", chapterId |-> "c1"]}
    [] op = "deleteStoryScene" -> {[id |-> "n1", storyId |-> "s1"]}

\* u1 has made story s1, act a1, chapter c1 of a1 and scene n1 of c1, one call
\* after the other, and every call has been answered
InitConc ==
  /\ Stories = {[id |-> "s1", userId |-> "u1", title |-> "T", logline |-> NULL,
                 genre |-> NULL, targetAudience |-> NULL, status |-> NULL,
                 notes |-> NULL, createdAt |-> 1, updatedAt |-> 1]}
  /\ StoryActs = {[id |-> "a1", storyId |-> "s1", orderIndex |-> 1, title |-> NULL,
                   summary |-> NULL, createdAt |-> 2]}
  /\ StoryChapters = {[id |-> "c1", storyId |-> "s1", actId |-> "a1",
                       orderIndex |-> 1, title |-> NULL, povCharacter |-> NULL,
                       summary |-> NULL, createdAt |-> 3, updatedAt |-> 3]}
  /\ StoryScenes = {[id |-> "n1", storyId |-> "s1", chapterId |-> "c1",
                     orderIndex |-> 1, setting |-> NULL, goal |-> NULL,
                     conflict |-> NULL, outcome |-> NULL, content |-> NULL,
                     createdAt |-> 4, updatedAt |-> 4]}
  /\ uuids = [Stories |-> 1, StoryActs |-> 1, StoryChapters |-> 1, StoryScenes |-> 1]
  /\ clock = 5
  /\ last = Idle
  /\ requests = {}

\* the statements that have run since InitConc
Commits == clock - 5

\* a request arrives: its input is parsed and its handler runs its checks; a
\* request that fails one is answered with the error, one that passes them all
\* goes on to its statement
Begin(op) ==
  /\ last = Idle
  /\ Cardinality(requests) < MaxRequests
  /\ \E context \in Contexts, input \in ConcInputs(op) :
       LET response == Handler(op, input, context)
       IN IF response.threw
          THEN /\ Answer(op, context, input, response)
               /\ requests' = requests
          ELSE /\ requests' = requests \cup
                    {[op |-> op, user |-> context.user, input |-> input,
                      seen |-> clock, done |-> FALSE, at |-> 0]}
               /\ UNCHANGED <<Stories, StoryActs, StoryChapters, StoryScenes,
                              uuids, clock, last>>

\* the statement of a request that passed its checks runs on the tables as they
\* are now, and the handler returns the success envelope
Commit(op) ==
  /\ last = Idle
  /\ Commits < MaxCommits
  /\ op \in DOMAIN Creates => uuids[Creates[op]] < Pool[Creates[op]]
  /\ \E r \in requests :
       /\ r.op = op /\ ~r.done
       /\ Answer(op, [user |-> r.user], r.input, Statement(op, r.input, r.user))
       /\ requests' = (requests \ {r}) \cup {[r EXCEPT !.done = TRUE, !.at = clock]}

NextConc ==
  \/ Respond
  \/ \E op \in Mutating : Begin(op)
  \/ \E op \in Mutating : Commit(op)

SpecConc == InitConc /\ [][NextConc]_vars

----------------------------------------------------------------------------
(* What the claims speak of *)

DescendantOps ==
  (DOMAIN Creates \cup Updates \cup Deletes \cup Lists) \ {"createStory", "updateStory", "listStories"}

Authenticated == last # Idle /\ last.user # NoUser

\* a Story with this id and this owner is in db
Owns(db, user, storyId) == \E s \in db.Stories : s.id = storyId /\ s.userId = user

Descendants(db) == db.StoryActs \cup db.StoryChapters \cup db.StoryScenes
AllRows(db) == db.Stories \cup Descendants(db)

\* the rows of db that belong to somebody other than user
Foreign(db, user) ==
  {s \in db.Stories : s.userId # user}
  \cup {r \in Descendants(db) :
          \E s \in db.Stories : s.id = r.storyId /\ s.userId # user}

\* the input has the shape the operation asks for: non-empty identifiers and
\* story title, and on an update at least one mutable field
WellShaped(op, input) ==
  /\ \A key \in {"id", "storyId"} \cap DOMAIN input : input[key] # ""
  /\ \A key \in {"actId", "chapterId"} \cap DOMAIN input : input[key] # NULL
  /\ (op \in {"createStory", "updateStory"} /\ Has(input, "title")) => input.title # ""
  /\ op \in Updates => DOMAIN input \ {"id", "storyId"} # {}

StoryNotFound ==
  last.threw /\ last.code = NOT_FOUND /\ last.message = "Story not found."
  /\ last.data = {}

----------------------------------------------------------------------------
(* C1: no call changes, deletes or returns a row of another user: every    *)
(* Story of another user, and every Act, Chapter and Scene whose storyId   *)
(* names a Story of another user, is in its table after the call exactly   *)
(* as before, and is not among the rows the call returns.                  *)
C1_Isolation ==
  last # Idle =>
    \A row \in Foreign(last.pre, last.user) :
      row \in AllRows(DB) /\ row \notin last.data

\* u2 names u1's act together with a story of its own, and gets NotFound
C1_Witness ==
  /\ last.op = "updateStoryAct" /\ last.user = "u2"
  /\ Owns(last.pre, "u2", last.input.storyId)
  /\ \E a \in last.pre.StoryActs :
       a.id = last.input.id /\ Owns(last.pre, "u1", a.storyId)
  /\ last.code = NOT_FOUND /\ last.message = "Act not found."

(* C2: an Act, Chapter or Scene operation called by a signed-in user with  *)
(* a well-shaped input fails NotFound unless the caller owns a Story with  *)
(* the given storyId, whether or not the targeted row exists.              *)
C2_StoryGate ==
  (Authenticated /\ last.op \in DescendantOps /\ WellShaped(last.op, last.input)
     /\ ~Owns(last.pre, last.user, last.input.storyId))
    => last.threw /\ last.code = NOT_FOUND

\* the chapter exists under the story named, and the story is somebody else's
C2_Witness ==
  /\ last.op = "deleteStoryChapter" /\ Authenticated
  /\ \E c \in last.pre.StoryChapters :
       c.id = last.input.id /\ c.storyId = last.input.storyId
  /\ \E s \in last.pre.Stories : s.id = last.input.storyId /\ s.userId # last.user
  /\ last.code = NOT_FOUND

(* C3: every Chapter whose actId is present references an Act that exists  *)
(* and has the Chapter's storyId.                                          *)
C3_ChapterActExists ==
  \A c \in StoryChapters :
    c.actId # NULL =>
      \E a \in StoryActs : a.id = c.actId /\ a.storyId = c.storyId

\* C3 restricted to the actIds an ownership check has passed: deleteStoryAct
\* alone breaks it, with no empty actId involved
C3_CheckedActExists ==
  \A c \in StoryChapters :
    c.actId \notin {NULL, ""} =>
      \E a \in StoryActs : a.id = c.actId /\ a.storyId = c.storyId

(* C4: every Scene whose chapterId is present references a Chapter that    *)
(* exists and has the Scene's storyId.                                     *)
C4_SceneChapterExists ==
  \A n \in StoryScenes :
    n.chapterId # NULL =>
      \E c \in StoryChapters : c.id = n.chapterId /\ c.storyId = n.storyId

\* C4 restricted to the chapterIds an ownership check has passed
C4_CheckedChapterExists ==
  \A n \in StoryScenes :
    n.chapterId \notin {NULL, ""} =>
      \E c \in StoryChapters : c.id = n.chapterId /\ c.storyId = n.storyId

(* C5: a call that ends in Unauthorized, NotFound or ValidationError       *)
(* leaves the four tables as they were when it started.                    *)
C5_NoPartialWrite ==
  (last # Idle /\ last.threw) => DB = last.pre

\* the target chapter passes its gate, the supplied act does not
C5_Witness ==
  /\ last.op = "updateStoryChapter" /\ Authenticated
  /\ \E c \in last.pre.StoryChapters :
       c.id = last.input.id /\ c.storyId = last.input.storyId
  /\ Owns(last.pre, last.user, last.input.storyId)
  /\ Has(last.input, "actId")
  /\ last.threw /\ last.message = "Act not found."

(* C6, as claimed: a call with no caller identity fails Unauthorized,      *)
(* whatever the operation and the input, malformed inputs included.        *)
C6_UnauthorizedFirst ==
  (last # Idle /\ last.user = NoUser) => last.code = UNAUTHORIZED

(* C6, amended: a call with no caller identity fails Unauthorized when its *)
(* input is well-shaped, whatever rows the ids name (Unauthorized comes    *)
(* before NotFound), and fails ValidationError when its input is not.      *)
C6_UnauthorizedAfterParse ==
  (last # Idle /\ last.user = NoUser) =>
    /\ last.threw
    /\ last.code = IF WellShaped(last.op, last.input) THEN UNAUTHORIZED
                   ELSE BAD_REQUEST

\* nobody is signed in, the input is well-shaped, and the ids name nothing
C6_Witness ==
  /\ last.op = "updateStoryAct" /\ last.user = NoUser
  /\ WellShaped(last.op, last.input)
  /\ \A a \in last.pre.StoryActs : a.id # last.input.id
  /\ last.code = UNAUTHORIZED

(* C7: a signed-in caller who names a storyId it does not own gets the     *)
(* same answer, NOT_FOUND "Story not found." and no rows, when no Story    *)
(* has that id and when the Story is another user's, whatever that Story   *)
(* holds and whether or not the targeted row or ancestor exists under it.  *)
NamedStory == IF last.op = "updateStory" THEN last.input.id ELSE last.input.storyId

C7_MissingIsNotOwned ==
  (Authenticated /\ last.op \in DescendantOps \cup {"updateStory"}
     /\ WellShaped(last.op, last.input))
    => /\ (\A s \in last.pre.Stories : s.id # NamedStory) => StoryNotFound
       /\ (\E s \in last.pre.Stories : s.id = NamedStory /\ s.userId # last.user)
            => StoryNotFound

\* the Story named is another user's, and the scene named is in it
C7_Witness ==
  /\ last.op = "updateStoryScene" /\ Authenticated
  /\ \E s \in last.pre.Stories : s.id = last.input.storyId /\ s.userId # last.user
  /\ \E n \in last.pre.StoryScenes :
       n.id = last.input.id /\ n.storyId = last.input.storyId
  /\ StoryNotFound

(* C8: updateStoryChapter with a supplied actId, and updateStoryScene with *)
(* a supplied chapterId, fail NotFound and change no table when no Act     *)
(* (Chapter) with that id has the request's storyId, also when the Act     *)
(* (Chapter) exists in another Story of the caller and when the target has *)
(* no ancestor yet.                                                        *)
C8_AncestorOfSameStory ==
  /\ (Authenticated /\ last.op = "updateStoryChapter"
        /\ WellShaped(last.op, last.input) /\ Has(last.input, "actId")
        /\ ~\E a \in last.pre.StoryActs :
              a.id = last.input.actId /\ a.storyId = last.input.storyId)
       => last.threw /\ last.code = NOT_FOUND /\ DB = last.pre
  /\ (Authenticated /\ last.op = "updateStoryScene"
        /\ WellShaped(last.op, last.input) /\ Has(last.input, "chapterId")
        /\ ~\E c \in last.pre.StoryChapters :
              c.id = last.input.chapterId /\ c.storyId = last.input.storyId)
       => last.threw /\ last.code = NOT_FOUND /\ DB = last.pre

\* the caller owns both stories; the chapter, with no act, is in the one named and
\* the act is in the other
C8_Witness ==
  /\ last.op = "updateStoryChapter" /\ Authenticated
  /\ Has(last.input, "actId")
  /\ \E c \in last.pre.StoryChapters :
       c.id = last.input.id /\ c.storyId = last.input.storyId /\ c.actId = NULL
  /\ Owns(last.pre, last.user, last.input.storyId)
  /\ \E a \in last.pre.StoryActs :
       /\ a.id = last.input.actId /\ a.storyId # last.input.storyId
       /\ Owns(last.pre, last.user, a.storyId)
  /\ last.code = NOT_FOUND /\ last.message = "Act not found."

(* C9: createStoryChapter and listStoryChapters with any supplied actId,   *)
(* the empty string included, and createStoryScene and listStoryScenes     *)
(* with any supplied chapterId, fail NotFound unless the id names an Act   *)
(* (Chapter) of the Story given.                                           *)
C9_SuppliedAncestorResolved ==
  /\ (Authenticated /\ last.op \in {"createStoryChapter", "listStoryChapters"}
        /\ WellShaped(last.op, last.input) /\ Has(last.input, "actId")
        /\ ~\E a \in last.pre.StoryActs :
              a.id = last.input.actId /\ a.storyId = last.input.storyId)
       => last.threw /\ last.code = NOT_FOUND
  /\ (Authenticated /\ last.op \in {"createStoryScene", "listStoryScenes"}
        /\ WellShaped(last.op, last.input) /\ Has(last.input, "chapterId")
        /\ ~\E c \in last.pre.StoryChapters :
              c.id = last.input.chapterId /\ c.storyId = last.input.storyId)
       => last.threw /\ last.code = NOT_FOUND

(* C10: an update called by a signed-in user with identifier fields only   *)
(* (id, and storyId where there is one) fails ValidationError, "at least   *)
(* one field", and leaves the target row, its updatedAt included, as it    *)
(* was.                                                                    *)
C10_EmptyUpdateRejected ==
  (Authenticated /\ last.op \in Updates /\ DOMAIN last.input \subseteq {"id", "storyId"})
    => /\ last.threw /\ last.code = BAD_REQUEST
       /\ AtLeastOneField \in last.issues
       /\ \A row \in AllRows(last.pre) : row.id = last.input.id => row \in AllRows(DB)

\* the owner names its own story and no field
C10_Witness ==
  /\ last.op = "updateStory" /\ Authenticated
  /\ DOMAIN last.input = {"id"}
  /\ Owns(last.pre, last.user, last.input.id)
  /\ last.code = BAD_REQUEST

----------------------------------------------------------------------------
(* Frame of a call: the rows of before and after that carry the id named    *)

Succeeded(ops) == last # Idle /\ last.op \in ops /\ ~last.threw
RowsWithId(db, id) == {row \in AllRows(db) : row.id = id}
Identifiers == {"id", "storyId"}
Timestamped(db) == db.Stories \cup db.StoryChapters \cup db.StoryScenes

(* C11: a successful update that supplies the mutable fields F sets        *)
(* exactly the fields of F to the supplied values and leaves every other   *)
(* column of the target row, updatedAt excepted, and every other row of    *)
(* every table as it was; the row returned is the row as updated.          *)
C11_UpdateFrame ==
  Succeeded(Updates) =>
    \E old \in RowsWithId(last.pre, last.input.id) :
      \E new \in RowsWithId(DB, last.input.id) :
        /\ last.data = {new}
        /\ DOMAIN new = DOMAIN old
        /\ \A col \in DOMAIN old :
             IF col \in DOMAIN last.input \ Identifiers
             THEN new[col] = last.input[col]
             ELSE col # "updatedAt" => new[col] = old[col]
        /\ AllRows(DB) \ {new} = AllRows(last.pre) \ {old}

\* two of the scene's fields are set; its chapter link and the other rows stay
C11_Witness ==
  /\ Succeeded({"updateStoryScene"})
  /\ Has(last.input, "goal") /\ Has(last.input, "orderIndex")
  /\ \E n \in StoryScenes :
       n.id = last.input.id /\ n.goal = Text /\ n.orderIndex = 3 /\ n.content = NULL
  /\ Cardinality(AllRows(DB)) >= 3

(* C13: a list returns total equal to the number of its items; narrowed by *)
(* an actId (chapterId) it returns exactly the Chapters (Scenes) of the    *)
(* Story that carry that actId (chapterId), a subset of what the same call *)
(* without the narrowing id returns.                                       *)
C13_ListExact ==
  Succeeded(Lists) =>
    /\ last.total = Cardinality(last.data)
    /\ (last.op = "listStoryChapters" /\ Has(last.input, "actId")) =>
         /\ last.data = {c \in last.pre.StoryChapters :
                           c.storyId = last.input.storyId /\ c.actId = last.input.actId}
         /\ last.data \subseteq
              {c \in last.pre.StoryChapters : c.storyId = last.input.storyId}
    /\ (last.op = "listStoryScenes" /\ Has(last.input, "chapterId")) =>
         /\ last.data = {n \in last.pre.StoryScenes :
                           n.storyId = last.input.storyId
                           /\ n.chapterId = last.input.chapterId}
         /\ last.data \subseteq
              {n \in last.pre.StoryScenes : n.storyId = last.input.storyId}

\* C13 for the narrowing ids an ownership check resolves
C13_ListExactResolved ==
  (Succeeded(Lists) /\ \A key \in {"actId", "chapterId"} : ~Has(last.input, key) \/ last.input[key] # "")
    => C13_ListExact

(* C14: every Act, Chapter and Scene has a storyId that names an existing  *)
(* Story, and that Story belongs to the user whose create inserted the     *)
(* row: the create inserts it under a Story of its caller, and no call     *)
(* changes the owner of the Story a row is under.                          *)
C14_RootOwnedByCreator ==
  /\ \A row \in Descendants(DB) : \E s \in Stories : s.id = row.storyId
  /\ Succeeded(DOMAIN Creates \ {"createStory"}) =>
       \A row \in last.data :
         row \in Descendants(DB) /\ Owns(DB, last.user, row.storyId)
  /\ last # Idle =>
       \A row \in Descendants(DB) : \A old \in RowsWithId(last.pre, row.id) :
         \A s \in Stories : s.id = row.storyId => Owns(last.pre, s.userId, old.storyId)

\* u2 has put a scene under its own story while u1 has a story too
C14_Witness ==
  /\ Succeeded({"createStoryScene"}) /\ last.user = "u2"
  /\ \E s \in Stories : s.userId = "u1"
  /\ \E n \in StoryScenes : n \in last.data /\ Owns(DB, "u2", n.storyId)

(* C15: a Story keeps the userId, and an Act, Chapter and Scene keeps the  *)
(* storyId, it was created with: a create stores its caller (the storyId   *)
(* given), and no call changes the userId or storyId of a row.             *)
C15_OwnershipImmutable ==
  /\ Succeeded({"createStory"}) => \A row \in last.data : row.userId = last.user
  /\ Succeeded(DOMAIN Creates \ {"createStory"}) =>
       \A row \in last.data : row.storyId = last.input.storyId
  /\ last # Idle =>
       /\ \A s \in Stories : \A old \in RowsWithId(last.pre, s.id) :
            s.userId = old.userId
       /\ \A row \in Descendants(DB) : \A old \in RowsWithId(last.pre, row.id) :
            row.storyId = old.storyId

\* an act is updated by its owner while the other user has a story of its own
C15_Witness ==
  /\ Succeeded({"updateStoryAct"})
  /\ \E a \in StoryActs : a.id = last.input.id /\ a.title = Text
  /\ \E s \in Stories : s.userId # last.user

(* C16: with the clock read at each call: a successful create of a Story,  *)
(* Chapter or Scene stores updatedAt = createdAt = the time of the call; a *)
(* successful update of one sets updatedAt to the time of the call and     *)
(* keeps createdAt, so updatedAt >= createdAt always; an Act has no        *)
(* updatedAt and updateStoryAct keeps its createdAt.                       *)
C16_Timestamps ==
  /\ Succeeded({"createStory", "createStoryChapter", "createStoryScene"}) =>
       \A row \in last.data : row.createdAt = last.at /\ row.updatedAt = last.at
  /\ Succeeded({"updateStory", "updateStoryChapter", "updateStoryScene"}) =>
       \A row \in last.data :
         /\ row.updatedAt = last.at
         /\ \A old \in RowsWithId(last.pre, row.id) : row.createdAt = old.createdAt
  /\ \A row \in Timestamped(DB) : row.updatedAt >= row.createdAt
  /\ \A a \in StoryActs : "updatedAt" \notin DOMAIN a
  /\ Succeeded({"updateStoryAct"}) =>
       \A row \in last.data : \A old \in RowsWithId(last.pre, row.id) :
         row.createdAt = old.createdAt

\* a story is updated later than it was created
C16_Witness ==
  /\ Succeeded({"updateStory"})
  /\ \E s \in Stories : s \in last.data /\ s.updatedAt > s.createdAt

(* C17: createStoryAct, createStoryChapter and createStoryScene store      *)
(* orderIndex 1 when none is given and the given integer otherwise; the    *)
(* chapter (scene) is stored with no actId (chapterId) when none is given. *)
C17_CreateDefaults ==
  Succeeded({"createStoryAct", "createStoryChapter", "createStoryScene"}) =>
    \A row \in last.data :
      /\ row.orderIndex =
           IF Has(last.input, "orderIndex") THEN last.input.orderIndex ELSE 1
      /\ (last.op = "createStoryChapter" /\ ~Has(last.input, "actId")) =>
           row.actId = NULL
      /\ (last.op = "createStoryScene" /\ ~Has(last.input, "chapterId")) =>
           row.chapterId = NULL

\* both cases have happened: a chapter with the default and a scene with the given index
C17_Witness ==
  /\ Succeeded({"createStoryScene"}) /\ Has(last.input, "orderIndex")
  /\ \E n \in StoryScenes : n \in last.data /\ n.orderIndex = 2 /\ n.chapterId = NULL
  /\ \E c \in StoryChapters : c.orderIndex = 1 /\ c.actId = NULL

(* C20: a successful deleteStoryAct, deleteStoryChapter or                 *)
(* deleteStoryScene removes the one row with the id given and leaves every *)
(* other row of every table as it was; a Chapter that referenced the Act   *)
(* (a Scene that referenced the Chapter) keeps its actId (chapterId).      *)
C20_DeleteExact ==
  Succeeded(Deletes) =>
    /\ Cardinality(RowsWithId(last.pre, last.input.id)) = 1
    /\ AllRows(DB) = AllRows(last.pre) \ RowsWithId(last.pre, last.input.id)
    /\ last.op = "deleteStoryAct" =>
         \A c \in last.pre.StoryChapters : c \in StoryChapters
    /\ last.op = "deleteStoryChapter" =>
         \A n \in last.pre.StoryScenes : n \in StoryScenes

\* the act is gone and the chapter that referenced it still does
C20_Witness ==
  /\ Succeeded({"deleteStoryAct"})
  /\ \E c \in StoryChapters : c.actId = last.input.id
  /\ \A a \in StoryActs : a.id # last.input.id

----------------------------------------------------------------------------
(* Requests served at once *)

\* the updates whose statement has run on the row with this id and set this field
Writers(id, col) ==
  {r \in requests : r.done /\ r.op \in Updates /\ r.input.id = id /\ Has(r.input, col)}

\* both requests had passed their checks before the statement of either ran
Overlap(r1, r2) == r1.done /\ r2.done /\ r1.seen <= r2.at /\ r2.seen <= r1.at

(* C12: under any interleaving, a create, update or delete that returns    *)
(* the success envelope has applied its statement to an existing row: the  *)
(* update returns the updated row with the supplied fields set, the delete *)
(* removed the target, the create returns the row it inserted.             *)
C12_SuccessApplied ==
  /\ Succeeded(Updates) =>
       \E row \in last.data :
         /\ row.id = last.input.id
         /\ row \in AllRows(DB)
         /\ \A col \in DOMAIN last.input \ Identifiers : row[col] = last.input[col]
  /\ Succeeded(Deletes) =>
       /\ RowsWithId(last.pre, last.input.id) # {}
       /\ RowsWithId(DB, last.input.id) = {}
  /\ Succeeded(DOMAIN Creates) =>
       \E row \in last.data : row \in AllRows(DB) \ AllRows(last.pre)

(* C18: of the updates that have run on a row, the one whose statement ran *)
(* last has given each field it set its value, and a field it did not set  *)
(* has the value of the latest update that did set it: a field set by two  *)
(* concurrent updates ends with the value of the later statement, a field  *)
(* set by one of them ends with that one's value.                          *)
C18_LastWriteWins ==
  \A row \in AllRows(DB) : \A col \in DOMAIN row \ Identifiers :
    Writers(row.id, col) # {} =>
      \E r \in Writers(row.id, col) :
        /\ \A q \in Writers(row.id, col) : q.at <= r.at
        /\ row[col] = r.input[col]

\* two updates of scene n1 were in flight together: goal has the later one's
\* value, content the earlier one's, outcome the later one's
C18_Witness ==
  \E r1, r2 \in requests :
    /\ r1.op = "updateStoryScene" /\ r2.op = "updateStoryScene"
    /\ r1.input.id = r2.input.id
    /\ Overlap(r1, r2) /\ r1.at < r2.at
    /\ Has(r1.input, "content") /\ Has(r2.input, "outcome")
    /\ \E n \in StoryScenes :
         /\ n.id = r1.input.id
         /\ n.goal = r2.input.goal /\ n.goal # r1.input.goal
         /\ n.content = r1.input.content
         /\ n.outcome = r2.input.outcome

(* C19: when createStoryChapter or updateStoryChapter succeeds with an     *)
(* actId and writes the chapter row, an Act with that id and the request's *)
(* storyId is in StoryActs as the row is written; the same for             *)
(* createStoryScene and updateStoryScene with a chapterId, under any       *)
(* interleaving with other requests.                                       *)
C19_AncestorAtWrite ==
  /\ (Succeeded({"createStoryChapter", "updateStoryChapter"})
      /\ Has(last.input, "actId") /\ last.data # {}) =>
       \E a \in last.pre.StoryActs :
         a.id = last.input.actId /\ a.storyId = last.input.storyId
  /\ (Succeeded({"createStoryScene", "updateStoryScene"})
      /\ Has(last.input, "chapterId") /\ last.data # {}) =>
       \E c \in last.pre.StoryChapters :
         c.id = last.input.chapterId /\ c.storyId = last.input.storyId

----------------------------------------------------------------------------
(* Ancestor links *)

\* the ancestor link of a chapter or scene row
Link(row) == IF "actId" \in DOMAIN row THEN row.actId ELSE row.chapterId
Linked(db) == db.StoryChapters \cup db.StoryScenes

(* C21: a Chapter's actId (a Scene's chapterId) that is present stays      *)
(* present for as long as the row exists: no call leaves a row that had a  *)
(* link with no link (null), nor a row that had a non-empty link with an   *)
(* empty one; an update answers a null link with a validation error and an *)
(* id that names no Act (Chapter) of the Story with NotFound.              *)
C21_LinkNeverCleared ==
  last # Idle =>
    /\ \A old \in Linked(last.pre) : \A new \in RowsWithId(DB, old.id) :
         /\ Link(old) # NULL => Link(new) # NULL
         /\ Link(old) \notin {NULL, ""} => Link(new) \notin {NULL, ""}
    /\ \A key \in {"actId", "chapterId"} :
         (last.op \in {"updateStoryChapter", "updateStoryScene"}
          /\ Has(last.input, key) /\ last.input[key] \in {NULL, ""}) => last.threw

\* the owner's update has written the link of a chapter that had one, and the
\* chapter has one still
C21_Witness ==
  /\ Succeeded({"updateStoryChapter"}) /\ Has(last.input, "actId")
  /\ \E old \in last.pre.StoryChapters : \E new \in StoryChapters :
       /\ old.id = last.input.id /\ new.id = old.id
       /\ old.actId \notin {NULL, ""}
       /\ new.actId = last.input.actId /\ new.actId \notin {NULL, ""}
       /\ new.updatedAt > old.updatedAt

\* with a second act made meanwhile, the link of chapter c1 has gone from a1 to a2
C21_Repointed ==
  /\ Succeeded({"updateStoryChapter"})
  /\ \E old \in last.pre.StoryChapters : \E new \in StoryChapters :
       /\ old.id = new.id /\ old.actId = "a1" /\ new.actId = "a2"
       /\ \E a \in StoryActs : a.id = "a2" /\ a.storyId = new.storyId

============================================================================
